---- MODULE Spec2Model ----
(***************************************************************************)
(* Model of the virtualization range controller (Virtualizer component),   *)
(* the engine gateway (core/wasm.ts) and the frame callbacks they use.     *)
(* Numbers that the code computes by division are kept as exact fractions  *)
(* [n, d]; everything else is an integer.                                  *)
(***************************************************************************)
EXTENDS Integers, Sequences, FiniteSets, TLC

\* ------------------------------------------------------------------ bounds
MaxHandles == 2      \* engine handles allocated in one behaviour
MaxRaf     == 2      \* frame callbacks outstanding at one time
MaxCallers == 2      \* users of the gateway calling initializeWasm
MaxLoads   == 3      \* engine loads started in one behaviour

\* ------------------------------------------------------- program constants
MAX_SAFE_SCROLL_HEIGHT == 15000000
SampleSize       == 10
DefaultOverscan  == 3

\* ------------------------------------------------------- exact fractions
Abs(x) == IF x < 0 THEN -x ELSE x
Min(a, b) == IF a < b THEN a ELSE b
Max(a, b) == IF a > b THEN a ELSE b

RECURSIVE GCD(_, _)
GCD(a, b) == IF b = 0 THEN a ELSE GCD(b, a % b)

\* the number n / d, d > 0, in lowest terms
Rat(n, d) == LET g == GCD(Abs(n), d) IN [n |-> n \div g, d |-> d \div g]
Int2Rat(i) == [n |-> i, d |-> 1]
RatMul(a, b) ==
  LET g1 == GCD(Abs(a.n), b.d)
      g2 == GCD(Abs(b.n), a.d)
  IN  [n |-> (a.n \div g1) * (b.n \div g2), d |-> (a.d \div g2) * (b.d \div g1)]
\* a / b for b > 0
RatDiv(a, b) == RatMul(a, [n |-> b.d, d |-> b.n])
RatAddInt(a, i) == [n |-> a.n + i * a.d, d |-> a.d]
RatFloor(a) == a.n \div a.d
RatCeil(a) == -((-a.n) \div a.d)
RatLeq(a, b) == IF a.d = b.d THEN a.n <= b.n ELSE a.n * b.d <= b.n * a.d
RatMin(a, b) == IF RatLeq(a, b) THEN a ELSE b
\* |a - b| < 1/2
RatCloserThanHalf(a, b) ==
  IF a.d = b.d THEN 2 * Abs(a.n - b.n) < a.d
  ELSE 2 * Abs(a.n * b.d - b.n * a.d) < a.d * b.d

\* ------------------------------------------- caller-supplied configuration
\* estimateSize functions the caller may pass
SizeFns == {"const50", "alt4060", "late5070", "huge"}
estimateSize(f, i) ==
  CASE f = "const50"  -> 50
    [] f = "alt4060"  -> IF i % 2 = 0 THEN 40 ELSE 60
    [] f = "late5070" -> IF i < 10 THEN 50 ELSE 70
    [] f = "huge"     -> IF i % 2 = 0 THEN 6000000 ELSE 9000000
\* item counts the caller may configure with each of them
ItemCounts(f) ==
  CASE f = "const50"  -> {1000, 2000, 1000000}
    [] f = "alt4060"  -> {0, 3}
    [] f = "late5070" -> {12}
    [] f = "huge"     -> {3}
\* the @overscan passed with each of them; -1: the argument is not passed
OverscanArg(f) == IF f \in {"const50", "late5070"} THEN -1 ELSE 0
ViewportSizes == {0, 100}
ScrollPositions == {0, 100}
IndexInputs == {0, 2}

\* sizes[i] = estimateSize(i) for i in 0..count-1   (a 1-based sequence)
SizesArray(f, count) == [k \in 1..count |-> estimateSize(f, k - 1)]
RECURSIVE SumSeq(_)
SumSeq(s) == IF s = <<>> THEN 0 ELSE Head(s) + SumSeq(Tail(s))

\* --------------------------------------------------------- engine contract
UniformHandle(count, size) ==
  [kind |-> "U", count |-> count, size |-> size, sizes |-> <<>>, frees |-> 0]
VariableHandle(sizes) ==
  [kind |-> "V", count |-> Len(sizes), size |-> 0, sizes |-> sizes, frees |-> 0]

\* offset of item index (sum of the sizes before it)
get_offset(h, index) ==
  IF h.kind = "U" THEN index * h.size
  ELSE SumSeq(SubSeq(h.sizes, 1, Min(index, h.count)))
get_size(h, index) ==
  IF h.kind = "U" THEN h.size
  ELSE IF index < h.count THEN h.sizes[index + 1] ELSE 0
\* first item whose end lies after the offset (count if there is none)
IndexAt(h, off) ==
  IF h.kind = "U" THEN Min(h.count, RatFloor(RatDiv(off, Int2Rat(h.size))))
  ELSE LET S == {i \in 0..h.count - 1 :
                   ~RatLeq(Int2Rat(get_offset(h, i + 1)), off)}
       IN  IF S = {} THEN h.count ELSE CHOOSE i \in S : \A j \in S : i <= j
\* first item boundary at or after the offset (count if there is none)
IndexEnd(h, off) ==
  IF h.kind = "U" THEN Min(h.count, RatCeil(RatDiv(off, Int2Rat(h.size))))
  ELSE LET S == {i \in 0..h.count : RatLeq(off, Int2Rat(get_offset(h, i)))}
       IN  IF S = {} THEN h.count ELSE CHOOSE i \in S : \A j \in S : i <= j
\* [start, end): the items intersecting the viewport, widened by overscan
calc_range(h, scroll, viewport, overscan) ==
  LET start == Max(0, IndexAt(h, scroll) - overscan)
      end   == Min(h.count, IndexEnd(h, RatAddInt(scroll, viewport)) + overscan)
  IN  <<start, Max(start, end)>>

\* ------------------------------------------------------------------- state
VARIABLES
  \* engine gateway (module-level state of core/wasm.ts)
  wasmStatus, wasmError, initializationPromise, wasmModule,
  \* controller fields
  isLoading, error, range, element, virtualizer, uniformVirtualizer,
  isUniform, uniformSize, scrollMultiplier, lastStart, lastEnd,
  lastPaddingTop, rafId, rafPending, wasmReady,
  \* controller arguments (owned by the caller)
  sizeFn, itemCount, overscanArg,
  \* the scrollable element, the engine's heap, the browser's frame callbacks
  scrollPos, viewportSize, scrollDirty, countDirty, heap, rafQueue, frame,
  \* where the controller's initialize() is
  initPc,
  \* history: willDestroy has run, the modifier's cleanup has run, what the
  \* last step did, and the index of a scrollToIndex call that no recompute
  \* has followed yet (-1: none)
  destroyed, detached, lastStep, target,
  \* the gateway seen by its users: every load initializeWasm has started
  \* ("running", "imported", "fulfilled", "rejected"), performanceStats, and
  \* for each user where it is with the promise it was returned (load: the
  \* load whose promise it holds, 0 for Promise.resolve())
  loads, performanceStats, callers

gwVars == <<wasmStatus, wasmError, initializationPromise, wasmModule>>
argVars == <<sizeFn, itemCount, overscanArg>>
elVars == <<scrollPos, viewportSize, scrollDirty>>
\* the fields a recomputation or an item-count change may write
coreVars == <<range, virtualizer, uniformVirtualizer, isUniform, uniformSize,
              scrollMultiplier, lastStart, lastEnd, lastPaddingTop, heap>>
\* Spec follows one controller and leaves the other users of the gateway
\* abstract (OtherInitialize): it does not record them.  GwSpec is the gateway
\* with its users alone.
gwUsers == <<loads, performanceStats, callers>>
vars == <<gwVars, argVars, elVars, coreVars, isLoading, error, element, rafId,
          rafPending, wasmReady, countDirty, rafQueue, frame, initPc,
          destroyed, detached, lastStep, target, gwUsers>>

Callers == 1..MaxCallers
InitialStats ==
  [initTime |-> 0, isOptimized |-> FALSE, version |-> "0.0.0", opsPerSecond |-> 0]
NoCall == [pc |-> "idle", load |-> 0]

EmptyRange ==
  [startIndex |-> 0, endIndex |-> 0, items |-> <<>>, offsets |-> <<>>,
   sizes |-> <<>>, totalHeight |-> Int2Rat(0), paddingTop |-> Int2Rat(0)]

\* this.args.overscan ?? 3
Overscan == IF overscanArg = -1 THEN DefaultOverscan ELSE overscanArg

\* the core fields as one record, so that the handlers compose
Core ==
  [range |-> range, virtualizer |-> virtualizer,
   uniformVirtualizer |-> uniformVirtualizer, isUniform |-> isUniform,
   uniformSize |-> uniformSize, scrollMultiplier |-> scrollMultiplier,
   lastStart |-> lastStart, lastEnd |-> lastEnd,
   lastPaddingTop |-> lastPaddingTop, heap |-> heap,
   calc |-> "none", retry |-> FALSE, thrown |-> FALSE, uaf |-> FALSE]

Released(s, h) == s.heap[h].frees > 0
\* one more call of free on a handle that has had n: 0, 1, or 2 for "more
\* than once"
Freed(n) == IF n = 0 THEN 1 ELSE 2

\* Multiplier without the branch for heights under the ceiling
Multiplier_Ratio(vth) == Rat(vth, MAX_SAFE_SCROLL_HEIGHT)

\* Multiplier without the branch for heights over the ceiling
Multiplier_One(vth) == Int2Rat(1)

Multiplier(vth) ==
  IF vth > MAX_SAFE_SCROLL_HEIGHT THEN Rat(vth, MAX_SAFE_SCROLL_HEIGHT)
  ELSE Int2Rat(1)

\* What the last step did, if it ran calculateRange or touched a released
\* handle: the operation (by), how calculateRange ended (how; "published":
\* this.range was assigned a new object), whether the callback was outstanding
\* when willDestroy ran (stale), whether it called an operation of a released
\* handle (uaf), the indices at which it invoked the caller's estimateSize
\* (calls).  NoStep after every other step.
Step(by, how, stale, u) ==
  [by |-> by, how |-> how, stale |-> stale, uaf |-> u, calls |-> {}]
NoStep == Step("none", "none", FALSE, FALSE)

Init ==
  /\ wasmStatus = "initializing"
  /\ wasmError = FALSE
  /\ initializationPromise = (wasmStatus = "initializing")
  /\ wasmModule = (wasmStatus = "ready")
  /\ initPc = IF wasmStatus = "ready" THEN "resolved" ELSE "awaiting"
  /\ isLoading = TRUE
  /\ error = FALSE
  /\ range = EmptyRange
  /\ element = FALSE
  /\ virtualizer = 0
  /\ uniformVirtualizer = 0
  /\ isUniform = FALSE
  /\ uniformSize = 0
  /\ scrollMultiplier = Int2Rat(1)
  /\ lastStart = -1
  /\ lastEnd = -1
  /\ lastPaddingTop = Int2Rat(0)
  /\ rafId = 0
  /\ rafPending = FALSE
  /\ wasmReady = FALSE
  /\ sizeFn \in SizeFns
  /\ itemCount \in ItemCounts(sizeFn)
  /\ overscanArg = OverscanArg(sizeFn)
  /\ scrollPos = Int2Rat(0)
  /\ viewportSize = 0
  /\ scrollDirty = FALSE
  /\ countDirty = FALSE
  /\ heap = <<>>
  /\ rafQueue = <<>>
  /\ frame = <<>>
  /\ destroyed = FALSE
  /\ detached = FALSE
  /\ lastStep = NoStep
  /\ target = -1
  /\ loads = <<>>
  /\ performanceStats = InitialStats
  /\ callers = [c \in Callers |-> NoCall]

\* ------------------------------------------------------------ recomputation
\* The handle the range query goes to: the uniform one on the uniform path,
\* else the variable one, else none (0).
QueryHandle(s) ==
  IF s.isUniform /\ s.uniformVirtualizer # 0 THEN s.uniformVirtualizer
  ELSE IF s.virtualizer # 0 THEN s.virtualizer ELSE 0

\* ClampedRange asking the engine about the top of the list, whatever the
\* element's scroll position
ClampedRange_AtOrigin(s) ==
  LET info == calc_range(s.heap[QueryHandle(s)], Int2Rat(0),
                         viewportSize, Overscan)
  IN  <<Max(0, info[1]), Min(itemCount, info[2])>>

\* ClampedRange with the clamp of end to the configured count left out
ClampedRange_NoClamp(s) ==
  calc_range(s.heap[QueryHandle(s)], RatMul(scrollPos, s.scrollMultiplier),
             viewportSize, Overscan)

\* start and end after the clamp to [0, itemCount]
ClampedRange(s) ==
  LET info == calc_range(s.heap[QueryHandle(s)],
                         RatMul(scrollPos, s.scrollMultiplier),
                         viewportSize, Overscan)
  IN  <<Max(0, info[1]), Min(itemCount, info[2])>>

FirstItemVirtualOffset(s, start) ==
  IF s.isUniform THEN start * s.uniformSize
  ELSE IF s.virtualizer # 0 THEN get_offset(s.heap[s.virtualizer], start)
  ELSE 0

\* SkipUnchanged with the skip rule dropped: every candidate is published
SkipUnchanged_Never(s, start, end, newPaddingTop) == FALSE

\* the candidate equals the last accepted one
SkipUnchanged(s, start, end, newPaddingTop) ==
  /\ start = s.lastStart
  /\ end = s.lastEnd
  /\ RatCloserThanHalf(newPaddingTop, s.lastPaddingTop)

\* BuildRange without the cap of totalHeight at the ceiling
BuildRange_Uncapped(s, start, end, firstOff, newPaddingTop) ==
  LET visibleCount == end - start
      items == [k \in 1..visibleCount |-> start + k - 1]
      offsets ==
        IF s.isUniform THEN [k \in 1..visibleCount |-> (k - 1) * s.uniformSize]
        ELSE IF s.virtualizer # 0
        THEN [k \in 1..visibleCount |->
                get_offset(s.heap[s.virtualizer], start + k - 1) - firstOff]
        ELSE [k \in 1..visibleCount |-> 0]
      sizes ==
        IF s.isUniform THEN [k \in 1..visibleCount |-> s.uniformSize]
        ELSE IF s.virtualizer # 0
        THEN [k \in 1..visibleCount |->
                get_size(s.heap[s.virtualizer], start + k - 1)]
        ELSE [k \in 1..visibleCount |-> 0]
      totalHeight ==
        IF s.isUniform
        THEN RatDiv(Int2Rat(itemCount * s.uniformSize), s.scrollMultiplier)
        ELSE IF s.virtualizer # 0
        THEN RatDiv(Int2Rat(get_offset(s.heap[s.virtualizer], itemCount)),
                    s.scrollMultiplier)
        ELSE Int2Rat(0)
  IN  [startIndex |-> start, endIndex |-> end, items |-> items,
       offsets |-> offsets, sizes |-> sizes,
       totalHeight |-> totalHeight,
       paddingTop |-> newPaddingTop]

\* BuildRange with the arrays sized by end instead of end - start
BuildRange_SizedByEnd(s, start, end, firstOff, newPaddingTop) ==
  LET visibleCount == end
      items == [k \in 1..visibleCount |-> start + k - 1]
      offsets ==
        IF s.isUniform THEN [k \in 1..visibleCount |-> (k - 1) * s.uniformSize]
        ELSE IF s.virtualizer # 0
        THEN [k \in 1..visibleCount |->
                get_offset(s.heap[s.virtualizer], start + k - 1) - firstOff]
        ELSE [k \in 1..visibleCount |-> 0]
      sizes ==
        IF s.isUniform THEN [k \in 1..visibleCount |-> s.uniformSize]
        ELSE IF s.virtualizer # 0
        THEN [k \in 1..visibleCount |->
                get_size(s.heap[s.virtualizer], start + k - 1)]
        ELSE [k \in 1..visibleCount |-> 0]
      totalHeight ==
        IF s.isUniform
        THEN RatDiv(Int2Rat(itemCount * s.uniformSize), s.scrollMultiplier)
        ELSE IF s.virtualizer # 0
        THEN RatDiv(Int2Rat(get_offset(s.heap[s.virtualizer], itemCount)),
                    s.scrollMultiplier)
        ELSE Int2Rat(0)
  IN  [startIndex |-> start, endIndex |-> end, items |-> items,
       offsets |-> offsets, sizes |-> sizes,
       totalHeight |-> RatMin(totalHeight, Int2Rat(MAX_SAFE_SCROLL_HEIGHT)),
       paddingTop |-> newPaddingTop]

\* the range object built for [start, end)
BuildRange(s, start, end, firstOff, newPaddingTop) ==
  LET visibleCount == end - start
      items == [k \in 1..visibleCount |-> start + k - 1]
      offsets ==
        IF s.isUniform THEN [k \in 1..visibleCount |-> (k - 1) * s.uniformSize]
        ELSE IF s.virtualizer # 0
        THEN [k \in 1..visibleCount |->
                get_offset(s.heap[s.virtualizer], start + k - 1) - firstOff]
        ELSE [k \in 1..visibleCount |-> 0]
      sizes ==
        IF s.isUniform THEN [k \in 1..visibleCount |-> s.uniformSize]
        ELSE IF s.virtualizer # 0
        THEN [k \in 1..visibleCount |->
                get_size(s.heap[s.virtualizer], start + k - 1)]
        ELSE [k \in 1..visibleCount |-> 0]
      totalHeight ==
        IF s.isUniform
        THEN RatDiv(Int2Rat(itemCount * s.uniformSize), s.scrollMultiplier)
        ELSE IF s.virtualizer # 0
        THEN RatDiv(Int2Rat(get_offset(s.heap[s.virtualizer], itemCount)),
                    s.scrollMultiplier)
        ELSE Int2Rat(0)
  IN  [startIndex |-> start, endIndex |-> end, items |-> items,
       offsets |-> offsets, sizes |-> sizes,
       totalHeight |-> RatMin(totalHeight, Int2Rat(MAX_SAFE_SCROLL_HEIGHT)),
       paddingTop |-> newPaddingTop]

\* calculateRange on the core state s.  s.calc names the way it ended, s.retry
\* whether a retry frame was requested.  An operation on a released handle
\* raises (the binding's pointer is zeroed by free); frees counts the calls of
\* free on a handle, the ones that raise included.
calculateRange(s) ==
  IF ~element THEN [s EXCEPT !.calc = "noElement"]
  ELSE IF viewportSize <= 0 THEN [s EXCEPT !.calc = "retry", !.retry = TRUE]
  ELSE IF QueryHandle(s) = 0 THEN [s EXCEPT !.calc = "noHandle"]
  ELSE IF Released(s, QueryHandle(s))
  THEN [s EXCEPT !.calc = "engineError", !.uaf = TRUE, !.thrown = TRUE]
  ELSE
    LET start == ClampedRange(s)[1]
        end == ClampedRange(s)[2]
        firstOff == FirstItemVirtualOffset(s, start)
        newPaddingTop == RatDiv(Int2Rat(firstOff), s.scrollMultiplier)
    IN  IF SkipUnchanged(s, start, end, newPaddingTop)
        THEN [s EXCEPT !.calc = "skip"]
        ELSE IF end - start < 0
        THEN \* new Array(visibleCount) raises RangeError
             [s EXCEPT !.calc = "rangeError",
                       !.thrown = TRUE,
                       !.lastStart = start, !.lastEnd = end,
                       !.lastPaddingTop = newPaddingTop]
        ELSE [s EXCEPT !.calc = "published",
                       !.lastStart = start, !.lastEnd = end,
                       !.lastPaddingTop = newPaddingTop,
                       !.range = BuildRange(s, start, end, firstOff,
                                            newPaddingTop)]

\* the controller is in one of its Ready states: initialization finished
\* without an error and teardown has not run
Ready == wasmReady /\ ~isLoading /\ ~error /\ ~destroyed

\* ModuleReady without the test of the status
ModuleReady_ModuleOnly == wasmModule

\* getWasmModule succeeds
ModuleReady == wasmStatus = "ready" /\ wasmModule

\* handleItemCountChange without the reset of lastStart and lastEnd
handleItemCountChange_NoInvalidate(s, alloc) ==
  IF ~wasmReady \/ isLoading THEN s
  ELSE IF s.isUniform /\ s.uniformVirtualizer # 0
  THEN
    IF Released(s, s.uniformVirtualizer)
    THEN [s EXCEPT !.uaf = TRUE, !.thrown = TRUE]
    ELSE
      calculateRange(
        [s EXCEPT !.heap[s.uniformVirtualizer].count = itemCount,
                  !.scrollMultiplier = Multiplier(itemCount * s.uniformSize)])
  ELSE IF s.virtualizer # 0
  THEN
    LET sizes == SizesArray(sizeFn, itemCount)
        freed == [s EXCEPT !.heap[s.virtualizer].frees = Freed(@)]
    IN  IF Released(s, s.virtualizer)
        THEN [freed EXCEPT !.uaf = TRUE, !.thrown = TRUE]
        ELSE IF ~(ModuleReady /\ alloc)
        THEN [freed EXCEPT !.thrown = TRUE]
        ELSE calculateRange(
               [freed EXCEPT !.heap = Append(freed.heap, VariableHandle(sizes)),
                             !.virtualizer = Len(freed.heap) + 1,
                             !.scrollMultiplier = Multiplier(SumSeq(sizes))])
  ELSE s

\* handleItemCountChange deciding the path again from the new count
handleItemCountChange_Redetect(s, alloc) ==
  IF ~wasmReady \/ isLoading THEN s
  ELSE IF s.isUniform /\ s.uniformVirtualizer # 0
  THEN
    IF Released(s, s.uniformVirtualizer)
    THEN [s EXCEPT !.uaf = TRUE, !.thrown = TRUE]
    ELSE
      LET vth == itemCount * s.uniformSize
      IN  calculateRange(
            [s EXCEPT !.heap[s.uniformVirtualizer].count = itemCount,
                      !.scrollMultiplier = Multiplier(vth),
                      !.isUniform =
                        (\A i \in 1..(Min(SampleSize, itemCount) - 1) :
                           estimateSize(sizeFn, i) = estimateSize(sizeFn, 0)),
                      !.lastStart = -1, !.lastEnd = -1])
  ELSE IF s.virtualizer # 0
  THEN
    LET sizes == SizesArray(sizeFn, itemCount)
        freed == [s EXCEPT !.heap[s.virtualizer].frees = Freed(@)]
        vth == SumSeq(sizes)
    IN  IF Released(s, s.virtualizer)
        THEN [freed EXCEPT !.uaf = TRUE, !.thrown = TRUE]
        ELSE IF ~(ModuleReady /\ alloc)
        THEN [freed EXCEPT !.thrown = TRUE]
        ELSE calculateRange(
               [freed EXCEPT !.heap = Append(freed.heap, VariableHandle(sizes)),
                             !.virtualizer = Len(freed.heap) + 1,
                             !.scrollMultiplier = Multiplier(vth),
                             !.lastStart = -1, !.lastEnd = -1])
  ELSE s

\* handleItemCountChange on the core state s; alloc: the engine can allocate
handleItemCountChange(s, alloc) ==
  IF ~wasmReady \/ isLoading THEN s
  ELSE IF s.isUniform /\ s.uniformVirtualizer # 0
  THEN
    IF Released(s, s.uniformVirtualizer)
    THEN [s EXCEPT !.uaf = TRUE, !.thrown = TRUE]
    ELSE
      LET vth == itemCount * s.uniformSize
      IN  calculateRange(
            [s EXCEPT !.heap[s.uniformVirtualizer].count = itemCount,
                      !.scrollMultiplier = Multiplier(vth),
                      !.lastStart = -1, !.lastEnd = -1])
  ELSE IF s.virtualizer # 0
  THEN
    LET sizes == SizesArray(sizeFn, itemCount)
        freed == [s EXCEPT !.heap[s.virtualizer].frees = Freed(@)]
        vth == SumSeq(sizes)
    IN  IF Released(s, s.virtualizer)
        THEN [freed EXCEPT !.uaf = TRUE, !.thrown = TRUE]
        ELSE IF ~(ModuleReady /\ alloc)
        THEN [freed EXCEPT !.thrown = TRUE]
        ELSE calculateRange(
               [freed EXCEPT !.heap = Append(freed.heap, VariableHandle(sizes)),
                             !.virtualizer = Len(freed.heap) + 1,
                             !.scrollMultiplier = Multiplier(vth),
                             !.lastStart = -1, !.lastEnd = -1])
  ELSE s

\* SampledUniform without the cap on the sample: every item is compared
SampledUniform_AllItems(f, count) ==
  \A i \in 1..(count - 1) : estimateSize(f, i) = estimateSize(f, 0)

\* all sampled sizes equal the first one
SampledUniform(f, count) ==
  \A i \in 1..(Min(SampleSize, count) - 1) : estimateSize(f, i) = estimateSize(f, 0)

\* the indices at which setupVirtualizer invokes estimateSize: 0 for the first
\* size, the sample up to the first size that differs, and every index when
\* the sizes array of the Variable path is filled
SetupCalls(f, count) ==
  LET reached(i) == \A j \in 1..(i - 1) : estimateSize(f, j) = estimateSize(f, 0)
  IN  {0}
        \cup {i \in 1..(Min(SampleSize, count) - 1) : reached(i)}
        \cup (IF SampledUniform(f, count) THEN {} ELSE 0..(count - 1))

\* HandlerCalls with the sizes taken again on the Uniform path too
HandlerCalls_Resample(s) ==
  IF ~wasmReady \/ isLoading THEN {}
  ELSE IF s.isUniform /\ s.uniformVirtualizer # 0 THEN 0..(itemCount - 1)
  ELSE IF s.virtualizer # 0 THEN 0..(itemCount - 1)
  ELSE {}

\* the indices at which handleItemCountChange invokes estimateSize
HandlerCalls(s) ==
  IF ~wasmReady \/ isLoading THEN {}
  ELSE IF s.isUniform /\ s.uniformVirtualizer # 0 THEN {}
  ELSE IF s.virtualizer # 0 THEN 0..(itemCount - 1)
  ELSE {}

\* setupVirtualizer raising after the handle was created instead of before
setupVirtualizer_RaisesLate(s, alloc) ==
  LET firstSize == estimateSize(sizeFn, 0)
      uni == SampledUniform(sizeFn, itemCount)
      s1 == [s EXCEPT !.isUniform = uni, !.uniformSize = firstSize]
      sizes == SizesArray(sizeFn, itemCount)
      vth == IF uni THEN itemCount * firstSize ELSE SumSeq(sizes)
  IN  IF uni
      THEN [s1 EXCEPT !.heap = Append(s.heap, UniformHandle(itemCount, firstSize)),
                      !.uniformVirtualizer = Len(s.heap) + 1,
                      !.scrollMultiplier = Multiplier(vth),
                      !.thrown = ~(ModuleReady /\ alloc)]
      ELSE [s1 EXCEPT !.heap = Append(s.heap, VariableHandle(sizes)),
                      !.virtualizer = Len(s.heap) + 1,
                      !.scrollMultiplier = Multiplier(vth),
                      !.thrown = ~(ModuleReady /\ alloc)]

\* setupVirtualizer on the core state s (up to the handle and the multiplier)
setupVirtualizer(s, alloc) ==
  LET firstSize == estimateSize(sizeFn, 0)
      uni == SampledUniform(sizeFn, itemCount)
      s1 == [s EXCEPT !.isUniform = uni, !.uniformSize = firstSize]
      sizes == SizesArray(sizeFn, itemCount)
      vth == IF uni THEN itemCount * firstSize ELSE SumSeq(sizes)
  IN  IF ~(ModuleReady /\ alloc) THEN [s1 EXCEPT !.thrown = TRUE]
      ELSE IF uni
      THEN [s1 EXCEPT !.heap = Append(s.heap, UniformHandle(itemCount, firstSize)),
                      !.uniformVirtualizer = Len(s.heap) + 1,
                      !.scrollMultiplier = Multiplier(vth)]
      ELSE [s1 EXCEPT !.heap = Append(s.heap, VariableHandle(sizes)),
                      !.virtualizer = Len(s.heap) + 1,
                      !.scrollMultiplier = Multiplier(vth)]

\* ------------------------------------------------------------ frame callbacks
\* An outstanding callback: its kind, whether it was outstanding when
\* willDestroy ran (stale), and whether its id is the one held in this.rafId
\* (tracked).  Ids are only ever compared with rafId, so rafId is 0 or 1 (an id
\* has been stored) and the callbacks record whether they are that one.
Pending == rafQueue \o frame
\* requestAnimationFrame(kind)
Request(q, kind, stale) ==
  Append(q, [kind |-> kind, stale |-> stale, tracked |-> FALSE])
\* this.rafId = requestAnimationFrame(kind): no other callback has that id
RequestTracked(q, kind, stale) ==
  Append([k \in 1..Len(q) |-> [q[k] EXCEPT !.tracked = FALSE]],
         [kind |-> kind, stale |-> stale, tracked |-> TRUE])
Untrack(q) == [k \in 1..Len(q) |-> [q[k] EXCEPT !.tracked = FALSE]]
\* cancelAnimationFrame(this.rafId)
Cancel(q) == SelectSeq(q, LAMBDA cb : ~cb.tracked)
MarkStale(q) == [k \in 1..Len(q) |-> [q[k] EXCEPT !.stale = TRUE]]

\* write the core state r back, within the bounds of the model
ApplyCore(r) ==
  /\ Len(r.heap) <= MaxHandles
  /\ range' = r.range
  /\ virtualizer' = r.virtualizer
  /\ uniformVirtualizer' = r.uniformVirtualizer
  /\ isUniform' = r.isUniform
  /\ uniformSize' = r.uniformSize
  /\ scrollMultiplier' = r.scrollMultiplier
  /\ lastStart' = r.lastStart
  /\ lastEnd' = r.lastEnd
  /\ lastPaddingTop' = r.lastPaddingTop
  /\ heap' = r.heap

\* QueueAfter with the retry of the viewport check never requested
QueueAfter_NoRetry(q, f, r, stale) ==
  /\ Len(q) + Len(f) <= MaxRaf
  /\ rafQueue' = q
  /\ frame' = f

\* the callbacks outstanding after this step: q is the next frame's queue,
\* f the rest of the current frame; a retry is requested if r asks for one
QueueAfter(q, f, r, stale) ==
  /\ Len(q) + Len(f) + (IF r.retry THEN 1 ELSE 0) <= MaxRaf
  /\ rafQueue' = IF r.retry THEN Request(q, "retry", stale) ELSE q
  /\ frame' = f

\* the callbacks of one frame run back to back: nothing else happens while a
\* frame is in progress
BetweenFrames == frame = <<>>
\* the caller and the user leave the component alone once it is destroyed
CallerActive == ~destroyed
\* the component and the modifier on its element are torn down in the same
\* flush: once willDestroy has run, the modifier's cleanup is the next step
TornDown == ~(destroyed /\ element)

\* ---------------------------------------------------------- engine gateway
\* the load started by initializeWasm settles successfully
LoadSucceeds ==
  /\ BetweenFrames
  /\ TornDown
  /\ initializationPromise
  /\ wasmModule' = TRUE
  /\ wasmStatus' = "ready"
  /\ wasmError' = FALSE
  /\ initializationPromise' = FALSE
  /\ initPc' = IF initPc = "awaiting" THEN "resolved" ELSE initPc
  /\ lastStep' = NoStep
  /\ UNCHANGED target
  /\ UNCHANGED <<argVars, elVars, coreVars, isLoading, error, element, rafId,
                 rafPending, wasmReady, countDirty, rafQueue, frame,
                 destroyed, detached>>
  /\ UNCHANGED gwUsers

\* the load fails (at the import of the bindings)
LoadFails ==
  /\ BetweenFrames
  /\ TornDown
  /\ initializationPromise
  /\ UNCHANGED wasmModule
  /\ wasmStatus' = "error"
  /\ wasmError' = TRUE
  /\ initializationPromise' = FALSE
  /\ initPc' = IF initPc = "awaiting" THEN "rejected" ELSE initPc
  /\ lastStep' = NoStep
  /\ UNCHANGED target
  /\ UNCHANGED <<argVars, elVars, coreVars, isLoading, error, element, rafId,
                 rafPending, wasmReady, countDirty, rafQueue, frame,
                 destroyed, detached>>
  /\ UNCHANGED gwUsers

\* initializeWasm() called by another user of the gateway
OtherInitialize ==
  /\ BetweenFrames
  /\ TornDown
  /\ IF initializationPromise \/ wasmStatus = "ready"
     THEN UNCHANGED <<wasmStatus, wasmError, initializationPromise>>
     ELSE /\ wasmStatus' = "initializing"
          /\ wasmError' = FALSE
          /\ initializationPromise' = TRUE
  /\ lastStep' = NoStep
  /\ UNCHANGED target
  /\ UNCHANGED <<wasmModule, argVars, elVars, coreVars, isLoading, error,
                 element, rafId, rafPending, wasmReady, countDirty, rafQueue,
                 frame, initPc, destroyed, detached>>
  /\ UNCHANGED gwUsers

\* -------------------------------------------------------------- controller
\* initialize() resumes after the await: wasmReady, setupVirtualizer, and
\* the catch clause if the setup raises
InitializeResume(alloc) ==
  /\ BetweenFrames
  /\ TornDown
  /\ initPc = "resolved"
  /\ initPc' = "done"
  /\ wasmReady' = TRUE
  /\ LET r == setupVirtualizer(Core, alloc)
     IN  /\ ApplyCore(r)
         /\ isLoading' = FALSE
         /\ error' = r.thrown
         /\ IF r.thrown THEN UNCHANGED <<rafQueue, frame>>
            ELSE /\ Len(Pending) < MaxRaf
                 /\ rafQueue' = Request(rafQueue, "setup", FALSE)
                 /\ frame' = frame
  /\ lastStep' = [Step("initialize", "none", FALSE, FALSE)
                    EXCEPT !.calls = SetupCalls(sizeFn, itemCount)]
  /\ UNCHANGED target
  /\ UNCHANGED <<gwVars, argVars, elVars, element, rafId, rafPending,
                 countDirty, destroyed, detached>>
  /\ UNCHANGED gwUsers

\* InitializeCatch without the catch clause: the rejection leaves initialize()
InitializeCatch_Unhandled ==
  /\ BetweenFrames
  /\ TornDown
  /\ initPc = "rejected"
  /\ initPc' = "unhandled"
  /\ lastStep' = NoStep
  /\ UNCHANGED target
  /\ UNCHANGED <<gwVars, argVars, elVars, coreVars, element, rafId, rafPending,
                 wasmReady, countDirty, rafQueue, frame, destroyed, detached,
                 error, isLoading>>
  /\ UNCHANGED gwUsers

\* initialize() resumes in its catch clause after a failed load
InitializeCatch ==
  /\ BetweenFrames
  /\ TornDown
  /\ initPc = "rejected"
  /\ initPc' = "done"
  /\ error' = TRUE
  /\ isLoading' = FALSE
  /\ lastStep' = NoStep
  /\ UNCHANGED target
  /\ UNCHANGED <<gwVars, argVars, elVars, coreVars, element, rafId, rafPending,
                 wasmReady, countDirty, rafQueue, frame, destroyed, detached>>
  /\ UNCHANGED gwUsers

\* the caller passes another @itemCount
SetItemCount(n) ==
  /\ BetweenFrames
  /\ CallerActive
  /\ n # itemCount
  /\ itemCount' = n
  /\ countDirty' = TRUE
  /\ lastStep' = NoStep
  /\ UNCHANGED target
  /\ UNCHANGED <<gwVars, sizeFn, overscanArg, elVars, coreVars, isLoading,
                 error, element, rafId, rafPending, wasmReady, rafQueue, frame,
                 initPc, destroyed, detached>>
  /\ UNCHANGED gwUsers

\* the effect in the template runs handleItemCountChange
ItemCountEffect(alloc) ==
  /\ BetweenFrames
  /\ CallerActive
  /\ countDirty
  /\ countDirty' = FALSE
  /\ LET r == handleItemCountChange(Core, alloc)
     IN  /\ ApplyCore(r)
         /\ QueueAfter(rafQueue, frame, r, FALSE)
         /\ lastStep' = IF ~wasmReady \/ isLoading THEN NoStep
                        ELSE [Step("effect", r.calc, FALSE, r.uaf)
                                EXCEPT !.calls = HandlerCalls(Core)]
  /\ target' = IF lastStep'.how = "none" THEN target ELSE -1
  /\ UNCHANGED <<gwVars, argVars, elVars, isLoading, error, element, rafId,
                 rafPending, wasmReady, initPc, destroyed, detached>>
  /\ UNCHANGED gwUsers

\* scrollElementRef installed on the element (the framework does it once)
Attach ==
  /\ BetweenFrames
  /\ CallerActive
  /\ ~detached
  /\ ~element
  /\ element' = TRUE
  /\ IF ~isLoading
     THEN /\ Len(Pending) < MaxRaf
          /\ rafQueue' = Request(rafQueue, "attach", FALSE)
     ELSE UNCHANGED rafQueue
  /\ lastStep' = NoStep
  /\ UNCHANGED target
  /\ UNCHANGED <<gwVars, argVars, elVars, coreVars, isLoading, error, rafId,
                 rafPending, wasmReady, countDirty, frame, initPc,
                 destroyed, detached>>
  /\ UNCHANGED gwUsers

\* the modifier's cleanup
Detach ==
  /\ BetweenFrames
  /\ element
  /\ element' = FALSE
  /\ detached' = TRUE
  /\ scrollDirty' = FALSE
  /\ lastStep' = NoStep
  /\ target' = -1
  /\ UNCHANGED <<gwVars, argVars, scrollPos, viewportSize, coreVars, isLoading,
                 error, rafId, rafPending, wasmReady, countDirty, rafQueue,
                 frame, initPc, destroyed>>
  /\ UNCHANGED gwUsers

\* the user scrolls the element; a scroll event is due if a listener is there
UserScroll(p) ==
  /\ BetweenFrames
  /\ CallerActive
  /\ scrollPos # Int2Rat(p)
  /\ scrollPos' = Int2Rat(p)
  /\ scrollDirty' = element
  /\ lastStep' = NoStep
  /\ target' = -1
  /\ UNCHANGED <<gwVars, argVars, viewportSize, coreVars, isLoading, error,
                 element, rafId, rafPending, wasmReady, countDirty, rafQueue,
                 frame, initPc, destroyed, detached>>
  /\ UNCHANGED gwUsers

\* the element is laid out: its extent becomes positive
Layout(v) ==
  /\ BetweenFrames
  /\ CallerActive
  /\ viewportSize = 0
  /\ v > 0
  /\ viewportSize' = v
  /\ lastStep' = NoStep
  /\ UNCHANGED target
  /\ UNCHANGED <<gwVars, argVars, scrollPos, scrollDirty, coreVars, isLoading,
                 error, element, rafId, rafPending, wasmReady, countDirty,
                 rafQueue, frame, initPc, destroyed, detached>>
  /\ UNCHANGED gwUsers

\* handleScroll without the test of the latch
handleScroll_NoLatch ==
  /\ BetweenFrames
  /\ CallerActive
  /\ element
  /\ scrollDirty
  /\ scrollDirty' = FALSE
  /\ Len(Pending) < MaxRaf
  /\ rafPending' = TRUE
  /\ rafQueue' = Request(rafQueue, "stage1", FALSE)
  /\ lastStep' = NoStep
  /\ UNCHANGED target
  /\ UNCHANGED <<gwVars, argVars, scrollPos, viewportSize, coreVars, isLoading,
                 error, element, rafId, wasmReady, countDirty, frame, initPc,
                 destroyed, detached>>
  /\ UNCHANGED gwUsers

\* handleScroll: the scroll event reaches the listener
handleScroll ==
  /\ BetweenFrames
  /\ CallerActive
  /\ element
  /\ scrollDirty
  /\ scrollDirty' = FALSE
  /\ IF rafPending
     THEN /\ UNCHANGED <<rafPending, rafQueue>>
          /\ lastStep' = Step("handleScroll", "none", FALSE, FALSE)
     ELSE /\ Len(Pending) < MaxRaf
          /\ rafPending' = TRUE
          /\ rafQueue' = Request(rafQueue, "stage1", FALSE)
          /\ lastStep' = NoStep
  /\ UNCHANGED target
  /\ UNCHANGED <<gwVars, argVars, scrollPos, viewportSize, coreVars, isLoading,
                 error, element, rafId, wasmReady, countDirty, frame, initPc,
                 destroyed, detached>>
  /\ UNCHANGED gwUsers

\* the offset scrollToIndex asks the element to scroll to
ScrollTarget(index) ==
  LET offset == IF isUniform THEN index * uniformSize
                ELSE IF virtualizer # 0 THEN get_offset(heap[virtualizer], index)
                ELSE 0
  IN  RatDiv(Int2Rat(offset), scrollMultiplier)

scrollToIndex(index) ==
  /\ BetweenFrames
  /\ CallerActive
  /\ element
  /\ LET u == ~isUniform /\ virtualizer # 0 /\ heap[virtualizer].frees > 0
     IN  /\ lastStep' = Step("scrollToIndex", "none", FALSE, u)
         /\ IF u THEN UNCHANGED <<scrollPos, scrollDirty, target>>
            ELSE /\ scrollPos' = ScrollTarget(index)
                 /\ scrollDirty' = (scrollDirty \/ scrollPos' # scrollPos)
                 /\ target' = IF Ready /\ viewportSize > 0 /\ index < itemCount
                              THEN index ELSE -1
  /\ UNCHANGED <<gwVars, argVars, viewportSize, coreVars, isLoading, error,
                 element, rafId, rafPending, wasmReady, countDirty, rafQueue,
                 frame, initPc, destroyed, detached>>
  /\ UNCHANGED gwUsers

scrollToOffset(offset) ==
  /\ BetweenFrames
  /\ CallerActive
  /\ element
  /\ scrollPos' = Int2Rat(offset)
  /\ scrollDirty' = (scrollDirty \/ scrollPos' # scrollPos)
  /\ lastStep' = Step("scrollToOffset", "none", FALSE, FALSE)
  /\ target' = -1
  /\ UNCHANGED <<gwVars, argVars, viewportSize, coreVars, isLoading, error,
                 element, rafId, rafPending, wasmReady, countDirty, rafQueue,
                 frame, initPc, destroyed, detached>>
  /\ UNCHANGED gwUsers

\* the browser starts a frame: the callbacks requested so far will run in it
FrameStart ==
  /\ frame = <<>>
  /\ TornDown
  /\ rafQueue # <<>>
  /\ frame' = rafQueue
  /\ rafQueue' = <<>>
  /\ lastStep' = NoStep
  /\ UNCHANGED target
  /\ UNCHANGED <<gwVars, argVars, elVars, coreVars, isLoading, error, element,
                 rafId, rafPending, wasmReady, countDirty, initPc,
                 destroyed, detached>>
  /\ UNCHANGED gwUsers

\* handleScroll with a single callback that clears the latch and recomputes
Stage1_SingleStage ==
  /\ frame # <<>>
  /\ Head(frame).kind = "stage1"
  /\ rafPending' = FALSE
  /\ LET r == calculateRange(Core)
     IN  /\ ApplyCore(r)
         /\ QueueAfter(rafQueue, Tail(frame), r, Head(frame).stale)
         /\ lastStep' = Step("stage2", r.calc, Head(frame).stale, r.uaf)
  /\ target' = -1
  /\ UNCHANGED <<gwVars, argVars, elVars, isLoading, error, element, rafId,
                 wasmReady, countDirty, initPc, destroyed, detached>>
  /\ UNCHANGED gwUsers

\* first callback of handleScroll: request the second one, keep its id
Stage1 ==
  /\ frame # <<>>
  /\ Head(frame).kind = "stage1"
  /\ rafQueue' = RequestTracked(rafQueue, "stage2", Head(frame).stale)
  /\ rafId' = 1
  /\ frame' = Untrack(Tail(frame))
  /\ lastStep' = NoStep
  /\ UNCHANGED target
  /\ UNCHANGED <<gwVars, argVars, elVars, coreVars, isLoading, error, element,
                 rafPending, wasmReady, countDirty, initPc, destroyed, detached>>
  /\ UNCHANGED gwUsers

\* second callback of handleScroll: clear the latch, recompute
Stage2 ==
  /\ frame # <<>>
  /\ Head(frame).kind = "stage2"
  /\ rafPending' = FALSE
  /\ LET r == calculateRange(Core)
     IN  /\ ApplyCore(r)
         /\ QueueAfter(rafQueue, Tail(frame), r, Head(frame).stale)
         /\ lastStep' = Step("stage2", r.calc, Head(frame).stale, r.uaf)
  /\ target' = -1
  /\ UNCHANGED <<gwVars, argVars, elVars, isLoading, error, element, rafId,
                 wasmReady, countDirty, initPc, destroyed, detached>>
  /\ UNCHANGED gwUsers

\* the callbacks requested by setupVirtualizer, scrollElementRef and the
\* viewport check of calculateRange
DeferredRecompute ==
  /\ frame # <<>>
  /\ Head(frame).kind \in {"setup", "attach", "retry"}
  /\ LET runs == Head(frame).kind # "setup" \/ element
         r == IF runs THEN calculateRange(Core) ELSE Core
     IN  /\ ApplyCore(r)
         /\ QueueAfter(rafQueue, Tail(frame), r, Head(frame).stale)
         /\ lastStep' = IF runs THEN Step(Head(frame).kind, r.calc,
                                           Head(frame).stale, r.uaf)
                        ELSE NoStep
  /\ target' = IF lastStep'.how = "none" THEN target ELSE -1
  /\ UNCHANGED <<gwVars, argVars, elVars, isLoading, error, element, rafId,
                 rafPending, wasmReady, countDirty, initPc, destroyed, detached>>
  /\ UNCHANGED gwUsers

\* willDestroy
willDestroy ==
  /\ BetweenFrames
  /\ TornDown
  /\ destroyed' = TRUE
  /\ rafQueue' = MarkStale(IF rafId # 0 THEN Cancel(rafQueue) ELSE rafQueue)
  /\ frame' = MarkStale(IF rafId # 0 THEN Cancel(frame) ELSE frame)
  /\ LET v == virtualizer
         u == uniformVirtualizer
         vBad == v # 0 /\ heap[v].frees > 0
         uBad == u # 0 /\ heap[u].frees > 0
         h1 == IF v # 0 THEN [heap EXCEPT ![v].frees = Freed(@)] ELSE heap
         h2 == IF u # 0 THEN [h1 EXCEPT ![u].frees = Freed(@)] ELSE h1
     IN  /\ lastStep' = IF vBad \/ uBad
                        THEN Step("willDestroy", "none", FALSE, TRUE)
                        ELSE NoStep
         /\ IF vBad
            THEN /\ heap' = h1
                 /\ UNCHANGED <<virtualizer, uniformVirtualizer>>
            ELSE IF uBad
            THEN /\ heap' = h2
                 /\ UNCHANGED <<virtualizer, uniformVirtualizer>>
            ELSE /\ heap' = h2
                 /\ virtualizer' = 0
                 /\ uniformVirtualizer' = 0
  /\ target' = -1
  /\ UNCHANGED <<gwVars, argVars, elVars, range, isUniform, uniformSize,
                 scrollMultiplier, lastStart, lastEnd, lastPaddingTop,
                 isLoading, error, element, rafId, rafPending, wasmReady,
                 countDirty, initPc, detached>>
  /\ UNCHANGED gwUsers

Next ==
  \/ LoadSucceeds
  \/ LoadFails
  \/ OtherInitialize
  \/ \E alloc \in BOOLEAN : InitializeResume(alloc)
  \/ InitializeCatch
  \/ \E n \in ItemCounts(sizeFn) : SetItemCount(n)
  \/ \E alloc \in BOOLEAN : ItemCountEffect(alloc)
  \/ Attach
  \/ Detach
  \/ \E p \in ScrollPositions : UserScroll(p)
  \/ \E v \in ViewportSizes : Layout(v)
  \/ handleScroll
  \/ \E i \in IndexInputs : scrollToIndex(i)
  \/ \E o \in ScrollPositions : scrollToOffset(o)
  \/ FrameStart
  \/ Stage1
  \/ Stage2
  \/ DeferredRecompute
  \/ willDestroy

Spec == Init /\ [][Next]_vars

\* the browser keeps delivering animation frames (FrameStart stays enabled
\* while a callback is requested), and a frame in progress runs its callbacks
\* to the end: each is a finite computation and none of Stage1, Stage2 and
\* DeferredRecompute can be refused while frame is not empty
FairSpec ==
  /\ Spec
  /\ WF_vars(FrameStart)
  /\ []<>(frame = <<>>)

\* ------------------------------------------- the gateway and its users
\* the module-level state of core/wasm.ts as one record; returned: the load
\* whose promise the last initializeWasm call returned (0: Promise.resolve())
Gateway ==
  [wasmStatus |-> wasmStatus, wasmError |-> wasmError,
   initializationPromise |-> initializationPromise, wasmModule |-> wasmModule,
   loads |-> loads, performanceStats |-> performanceStats, returned |-> 0]

\* the loads that have not settled
InFlight(l) == {k \in 1..Len(l) : l[k] \in {"running", "imported"}}

\* initializeWasm without the test of initializationPromise
initializeWasm_NoMarker(g) ==
  IF g.wasmStatus = "ready" THEN [g EXCEPT !.returned = 0]
  ELSE [g EXCEPT !.wasmStatus = "initializing",
                 !.wasmError = FALSE,
                 !.loads = Append(@, "running"),
                 !.initializationPromise = TRUE,
                 !.returned = Len(g.loads) + 1]

\* initializeWasm without the test of the ready status
initializeWasm_NoReadyTest(g) ==
  IF g.initializationPromise THEN [g EXCEPT !.returned = Len(g.loads)]
  ELSE [g EXCEPT !.wasmStatus = "initializing",
                 !.wasmError = FALSE,
                 !.loads = Append(@, "running"),
                 !.initializationPromise = TRUE,
                 !.returned = Len(g.loads) + 1]

\* initializeWasm(): the promise in flight (that of the load started last),
\* else a resolved promise if ready, else a new load
initializeWasm(g) ==
  IF g.initializationPromise THEN [g EXCEPT !.returned = Len(g.loads)]
  ELSE IF g.wasmStatus = "ready" THEN [g EXCEPT !.returned = 0]
  ELSE [g EXCEPT !.wasmStatus = "initializing",
                 !.wasmError = FALSE,
                 !.loads = Append(@, "running"),
                 !.initializationPromise = TRUE,
                 !.returned = Len(g.loads) + 1]

\* load k: the import of the bindings resolved, wasmModule is assigned
loadImported(g, k) ==
  [g EXCEPT !.wasmModule = TRUE, !.loads[k] = "imported"]

\* load k: wasmInit resolved; the statistics, the status, the finally clause.
\* initTime stands for the duration of load k; bench: bench_uniform returned
loadReady(g, k, bench) ==
  [g EXCEPT !.performanceStats =
               [initTime |-> k, isOptimized |-> TRUE, version |-> "engine",
                opsPerSecond |-> IF bench THEN 1 ELSE 0],
            !.wasmStatus = "ready",
            !.wasmError = FALSE,
            !.initializationPromise = FALSE,
            !.loads[k] = "fulfilled"]

\* loadFailed with the finally clause left out
loadFailed_KeepMarker(g, k) ==
  [g EXCEPT !.wasmStatus = "error",
            !.wasmError = TRUE,
            !.loads[k] = "rejected"]

\* loadFailed without the throw in the catch clause: the promise is fulfilled
loadFailed_Swallowed(g, k) ==
  [g EXCEPT !.wasmStatus = "error",
            !.wasmError = TRUE,
            !.initializationPromise = FALSE,
            !.loads[k] = "fulfilled"]

\* loadFailed with setStatus called without the error
loadFailed_NoErrorRecorded(g, k) ==
  [g EXCEPT !.wasmStatus = "error",
            !.wasmError = FALSE,
            !.initializationPromise = FALSE,
            !.loads[k] = "rejected"]

\* load k: the import or wasmInit raised; the catch and the finally clause
loadFailed(g, k) ==
  [g EXCEPT !.wasmStatus = "error",
            !.wasmError = TRUE,
            !.initializationPromise = FALSE,
            !.loads[k] = "rejected"]

ApplyGateway(g) ==
  /\ Len(g.loads) <= MaxLoads
  /\ wasmStatus' = g.wasmStatus
  /\ wasmError' = g.wasmError
  /\ initializationPromise' = g.initializationPromise
  /\ wasmModule' = g.wasmModule
  /\ loads' = g.loads
  /\ performanceStats' = g.performanceStats

\* what GwSpec leaves alone: the fields of the controller
ctlVars == <<argVars, elVars, range, virtualizer, uniformVirtualizer, isUniform,
             uniformSize, scrollMultiplier, lastStart, lastEnd, lastPaddingTop,
             isLoading, error, element, rafId, rafPending, wasmReady,
             countDirty, rafQueue, frame, initPc, destroyed, detached, target>>

\* the module as loaded: nobody has called it
GwInit ==
  /\ wasmStatus = "idle"
  /\ wasmError = FALSE
  /\ initializationPromise = FALSE
  /\ wasmModule = FALSE
  /\ loads = <<>>
  /\ performanceStats = InitialStats
  /\ callers = [c \in Callers |-> NoCall]
  /\ heap = <<>>
  /\ lastStep = NoStep
  /\ sizeFn = "alt4060"
  /\ itemCount = 3
  /\ overscanArg = OverscanArg(sizeFn)
  /\ scrollPos = Int2Rat(0)
  /\ viewportSize = 0
  /\ scrollDirty = FALSE
  /\ range = EmptyRange
  /\ virtualizer = 0
  /\ uniformVirtualizer = 0
  /\ isUniform = FALSE
  /\ uniformSize = 0
  /\ scrollMultiplier = Int2Rat(1)
  /\ lastStart = -1
  /\ lastEnd = -1
  /\ lastPaddingTop = Int2Rat(0)
  /\ isLoading = TRUE
  /\ error = FALSE
  /\ element = FALSE
  /\ rafId = 0
  /\ rafPending = FALSE
  /\ wasmReady = FALSE
  /\ countDirty = FALSE
  /\ rafQueue = <<>>
  /\ frame = <<>>
  /\ initPc = "awaiting"
  /\ destroyed = FALSE
  /\ detached = FALSE
  /\ target = -1

\* user c calls initializeWasm() and awaits the promise it returns
CallInitialize(c) ==
  /\ callers[c].pc = "idle"
  /\ LET r == initializeWasm(Gateway)
     IN  /\ ApplyGateway(r)
         /\ callers' = [callers EXCEPT ![c] = [pc |-> "awaiting",
                                                load |-> r.returned]]
  /\ lastStep' = NoStep
  /\ UNCHANGED <<heap, ctlVars>>

ImportResolves(k) ==
  /\ k \in 1..Len(loads)
  /\ loads[k] = "running"
  /\ ApplyGateway(loadImported(Gateway, k))
  /\ lastStep' = NoStep
  /\ UNCHANGED <<callers, heap, ctlVars>>

LoadCompletes(k, bench) ==
  /\ k \in 1..Len(loads)
  /\ loads[k] = "imported"
  /\ ApplyGateway(loadReady(Gateway, k, bench))
  /\ lastStep' = NoStep
  /\ UNCHANGED <<callers, heap, ctlVars>>

LoadThrows(k) ==
  /\ k \in InFlight(loads)
  /\ ApplyGateway(loadFailed(Gateway, k))
  /\ lastStep' = Step("load", "failed", FALSE, FALSE)
  /\ UNCHANGED <<callers, heap, ctlVars>>

\* the await of user c resumes: the promise it holds has settled
AwaitSettles(c) ==
  /\ callers[c].pc = "awaiting"
  /\ LET k == callers[c].load
         settled == IF k = 0 THEN "fulfilled" ELSE loads[k]
     IN  /\ settled \in {"fulfilled", "rejected"}
         /\ callers' = [callers EXCEPT ![c].pc =
                          IF settled = "rejected" THEN "rejected"
                          ELSE "resolved"]
  /\ lastStep' = NoStep
  /\ UNCHANGED <<gwVars, loads, performanceStats, heap, ctlVars>>

\* user c has dealt with the outcome and may call again
CallerDone(c) ==
  /\ callers[c].pc \in {"resolved", "rejected"}
  /\ callers' = [callers EXCEPT ![c] = NoCall]
  /\ lastStep' = NoStep
  /\ UNCHANGED <<gwVars, loads, performanceStats, heap, ctlVars>>

\* createVirtualizer(sizes) called by a user of the gateway
createVirtualizer ==
  /\ IF ModuleReady
     THEN /\ Len(heap) < MaxHandles
          /\ heap' = Append(heap, VariableHandle(SizesArray(sizeFn, itemCount)))
          /\ lastStep' = Step("createVirtualizer", "created", FALSE, FALSE)
     ELSE /\ heap' = heap
          /\ lastStep' = Step("createVirtualizer", "notInitialized", FALSE, FALSE)
  /\ UNCHANGED <<gwVars, gwUsers, ctlVars>>

\* createUniformVirtualizer(count, size) called by a user of the gateway
createUniformVirtualizer ==
  /\ IF ModuleReady
     THEN /\ Len(heap) < MaxHandles
          /\ heap' = Append(heap, UniformHandle(itemCount,
                                                estimateSize(sizeFn, 0)))
          /\ lastStep' = Step("createUniformVirtualizer", "created", FALSE, FALSE)
     ELSE /\ heap' = heap
          /\ lastStep' = Step("createUniformVirtualizer", "notInitialized",
                              FALSE, FALSE)
  /\ UNCHANGED <<gwVars, gwUsers, ctlVars>>

GwNext ==
  \/ \E c \in Callers : CallInitialize(c)
  \/ \E k \in 1..MaxLoads : ImportResolves(k)
  \/ \E k \in 1..MaxLoads, bench \in BOOLEAN : LoadCompletes(k, bench)
  \/ \E k \in 1..MaxLoads : LoadThrows(k)
  \/ \E c \in Callers : AwaitSettles(c)
  \/ \E c \in Callers : CallerDone(c)
  \/ createVirtualizer
  \/ createUniformVirtualizer

GwSpec == GwInit /\ [][GwNext]_vars

\* a promise that has settled resumes every await on it (microtasks run)
GwFairSpec == GwSpec /\ \A c \in Callers : WF_vars(AwaitSettles(c))

\* ------------------------------------------------------------------ properties
\* the handle a recompute in the current state would query
ActiveHandle == QueryHandle(Core)
\* a recompute ran in the last step
Recomputed == lastStep.how # "none"

\* C1: every range a recompute publishes has 0 <= startIndex <= endIndex <=
\* itemCount, itemCount being the configured count that recompute read; this
\* holds also when the configured count has shrunk and the engine handle still
\* has the old count.
C1_PublishedRangeWithinCount ==
  lastStep.how = "published" =>
    /\ 0 <= range.startIndex
    /\ range.startIndex <= range.endIndex
    /\ range.endIndex <= itemCount

\* a range published while the handle still counts more items than are
\* configured, with the engine's answer reaching past the configured count
C1_ShrinkRacePublished ==
  /\ lastStep.how = "published"
  /\ countDirty
  /\ ActiveHandle # 0
  /\ heap[ActiveHandle].count > itemCount
  /\ calc_range(heap[ActiveHandle], RatMul(scrollPos, scrollMultiplier),
                viewportSize, Overscan)[2] > itemCount
  /\ range.endIndex = itemCount

\* C2: every engine handle the controller creates is released exactly once,
\* whatever the order of teardown, the end of the asynchronous initialization,
\* item-count changes and frame callbacks: no handle is released twice, and
\* once teardown and initialization are both over no handle is left unreleased.
C2_EveryHandleReleasedOnce ==
  /\ \A k \in 1..Len(heap) : heap[k].frees <= 1
  /\ (destroyed /\ initPc = "done") => \A k \in 1..Len(heap) : heap[k].frees = 1

\* C3: teardown of a Ready controller releases the active handle exactly once
\* and clears both handle references, and no step after teardown (a second
\* teardown, a pending callback) releases a handle again.
C3_TeardownStep ==
  /\ (Ready /\ destroyed' /\ ActiveHandle # 0) =>
       /\ virtualizer' = 0
       /\ uniformVirtualizer' = 0
       /\ heap'[ActiveHandle].frees = 1
  /\ destroyed =>
       \A k \in 1..Len(heap) :
          heap[k].frees >= 1 => heap'[k].frees = heap[k].frees
C3_TeardownReleasesOnce == [][C3_TeardownStep]_vars

\* C4: no operation of the engine is invoked on a handle that has been
\* released, in any interleaving of recomputes, scrollToIndex, item-count
\* changes and teardown.
C4_NoUseAfterRelease == ~lastStep.uaf

\* C5: after teardown no callback that was outstanding at teardown is still
\* outstanding or runs a recompute, and the pending latch is clear.
C5_TeardownCancelsCallbacks ==
  destroyed =>
    /\ \A k \in 1..Len(Pending) : ~Pending[k].stale
    /\ ~lastStep.stale
    /\ ~rafPending

\* the candidate a recompute in the current state would compute equals the
\* last accepted one: same start, same end, paddingTop closer than 0.5
C6_CandidateUnchanged ==
  /\ element
  /\ viewportSize > 0
  /\ ActiveHandle # 0
  /\ heap[ActiveHandle].frees = 0
  /\ LET start == ClampedRange(Core)[1]
         end == ClampedRange(Core)[2]
         pad == RatDiv(Int2Rat(FirstItemVirtualOffset(Core, start)),
                       scrollMultiplier)
     IN  /\ start = lastStart
         /\ end = lastEnd
         /\ 2 * Abs(pad.n * lastPaddingTop.d - lastPaddingTop.n * pad.d)
              < pad.d * lastPaddingTop.d

\* C6: a recompute whose candidate equals the last accepted one (start, end,
\* paddingTop within 0.5) publishes nothing and leaves range, lastStart,
\* lastEnd and lastPaddingTop as they are; and after every recompute that got
\* as far as the skip test the candidate equals the last accepted one, so a
\* second recompute with nothing changed in between keeps the same range.
C6_SkipStep ==
  (C6_CandidateUnchanged
     /\ lastStep'.by \in {"stage2", "setup", "attach", "retry"}) =>
    /\ lastStep'.how = "skip"
    /\ UNCHANGED <<range, lastStart, lastEnd, lastPaddingTop>>
C6_Settled == lastStep.how \in {"published", "skip"} => C6_CandidateUnchanged
C6_SkipRule == [][C6_SkipStep]_vars /\ []C6_Settled

\* a scroll recompute just ended in a skip
C6_Skipped == lastStep.how = "skip" /\ lastStep.by = "stage2"

\* the virtual total height of the configured items
C7_VirtualTotalHeight ==
  IF isUniform THEN itemCount * uniformSize
  ELSE SumSeq(SizesArray(sizeFn, itemCount))

C8_NextRecompute ==
  (/\ target # -1
   /\ target < itemCount
   /\ Ready
   /\ element
   /\ viewportSize > 0
   /\ RatLeq(Int2Rat(1), scrollMultiplier)
   /\ lastStep'.how # "none") =>
    /\ range'.startIndex <= target
    /\ target < range'.endIndex
C8_ScrollToIndexInRange == [][C8_NextRecompute]_vars

\* C9: when every sampled size is the same constant c, setup creates one
\* Uniform handle with (itemCount, c) and no Variable handle, and every range
\* published on that path has totalHeight = itemCount x c whenever itemCount x
\* c <= 15,000,000.
C9_UniformTotalHeight ==
  /\ (lastStep.by = "initialize" /\ ~error
        /\ \A i \in 1..(Min(10, itemCount) - 1) :
              estimateSize(sizeFn, i) = estimateSize(sizeFn, 0)) =>
       /\ isUniform
       /\ virtualizer = 0
       /\ uniformVirtualizer # 0
       /\ heap = <<UniformHandle(itemCount, estimateSize(sizeFn, 0))>>
       /\ itemCount * uniformSize <= 15000000 => scrollMultiplier = Int2Rat(1)
  /\ (isUniform /\ lastStep.how = "published"
        /\ itemCount * uniformSize <= 15000000) =>
       range.totalHeight = Int2Rat(itemCount * uniformSize)

C11_ScrollMultiplier ==
  /\ scrollMultiplier.d > 0
  /\ scrollMultiplier.n >= scrollMultiplier.d
  /\ ((lastStep.by = "initialize" /\ ~error)
        \/ (lastStep.by = "effect" /\ Recomputed)) =>
       IF C7_VirtualTotalHeight <= 15000000
       THEN scrollMultiplier = Int2Rat(1)
       ELSE scrollMultiplier.n * 15000000
              = scrollMultiplier.d * C7_VirtualTotalHeight

\* an item-count change to 1,000,000 items of size 50 has just been processed:
\* the multiplier is 10/3
C11_MultiplierRaised ==
  /\ lastStep.by = "effect"
  /\ Recomputed
  /\ C7_VirtualTotalHeight = 50000000
  /\ scrollMultiplier = [n |-> 10, d |-> 3]

\* C12 (as amended): for 1,000,000 items of constant size 50 setup selects the
\* Uniform path; once setup or the item-count handler has run with that count
\* scrollMultiplier is 50,000,000 / 15,000,000 = 10/3; and every range
\* published for that count has totalHeight 15,000,000, the virtual total
\* height 50,000,000 divided by the multiplier and capped at the ceiling.
C12_MillionUniformItems ==
  (sizeFn = "const50" /\ itemCount = 1000000) =>
    /\ (lastStep.by = "initialize" /\ ~error) =>
         /\ isUniform
         /\ uniformVirtualizer # 0
         /\ virtualizer = 0
    /\ ((lastStep.by = "initialize" /\ ~error)
          \/ (lastStep.by = "effect" /\ Recomputed)) =>
         /\ itemCount * uniformSize = 50000000
         /\ scrollMultiplier = [n |-> 10, d |-> 3]
    /\ lastStep.how = "published" =>
         range.totalHeight = Int2Rat(15000000)

\* a range has been published for 1,000,000 items of size 50 set up on the
\* Uniform path with multiplier 10/3
C12_MillionPublished ==
  /\ sizeFn = "const50"
  /\ itemCount = 1000000
  /\ isUniform
  /\ scrollMultiplier = [n |-> 10, d |-> 3]
  /\ lastStep.how = "published"
  /\ range.totalHeight = Int2Rat(15000000)

\* C12 (as stated): for 1,000,000 items of constant size 50 the published
\* totalHeight is 50,000,000.
C12_MillionTotalHeight ==
  (sizeFn = "const50" /\ itemCount = 1000000 /\ lastStep.how = "published") =>
    range.totalHeight = Int2Rat(50000000)

\* the handle and scrollMultiplier are those of the configured item count
C13_InSync ==
  /\ ActiveHandle # 0
  /\ heap[ActiveHandle].frees = 0
  /\ heap[ActiveHandle].count = itemCount
  /\ ~isUniform => heap[ActiveHandle].sizes = SizesArray(sizeFn, itemCount)
  /\ IF C7_VirtualTotalHeight <= 15000000
     THEN scrollMultiplier = Int2Rat(1)
     ELSE scrollMultiplier.n * 15000000
            = scrollMultiplier.d * C7_VirtualTotalHeight

\* C13: every published range has totalHeight <= 15,000,000, and a range
\* published while the handle and scrollMultiplier are in sync with the
\* configured item count has totalHeight = min(virtual total height,
\* 15,000,000), the virtual total height being itemCount x uniformSize on the
\* Uniform path and the sum of all item sizes on the Variable path.
C13_TotalHeightCapped ==
  /\ range.totalHeight.n <= 15000000 * range.totalHeight.d
  /\ (lastStep.how = "published" /\ C13_InSync) =>
       range.totalHeight = Int2Rat(Min(C7_VirtualTotalHeight, 15000000))

\* a Variable list of virtual height 21,000,000 published in sync with
\* totalHeight 15,000,000
C13_CappedVariable ==
  /\ lastStep.how = "published"
  /\ C13_InSync
  /\ ~isUniform
  /\ C7_VirtualTotalHeight = 21000000
  /\ range.totalHeight = Int2Rat(15000000)

\* C14: in every published range items, offsets and sizes each have length
\* endIndex - startIndex, which is never negative, and items[k] = startIndex +
\* k for every k.
C14_RangeArrays ==
  LET n == range.endIndex - range.startIndex
  IN  /\ n >= 0
      /\ Len(range.items) = n
      /\ Len(range.offsets) = n
      /\ Len(range.sizes) = n
      /\ \A k \in 0..(n - 1) : range.items[k + 1] = range.startIndex + k

\* a range that does not begin at item 0 has just been published
C14_OffsetWindowPublished ==
  /\ lastStep.how = "published"
  /\ range.startIndex > 0
  /\ range.endIndex > range.startIndex
  /\ range.items[1] = range.startIndex

\* C15: with itemCount = 0 no setup, recompute or item-count change to or from
\* 0 fails, and a range published while itemCount = 0 is empty: startIndex =
\* endIndex = 0, items, offsets and sizes empty, totalHeight = 0.
C15_EmptyListDegrades ==
  /\ (itemCount = 0 \/ (ActiveHandle # 0 /\ heap[ActiveHandle].count = 0)) =>
       lastStep.how # "rangeError"
  /\ (itemCount = 0 /\ lastStep.how = "published") =>
       /\ range.startIndex = 0
       /\ range.endIndex = 0
       /\ range.items = <<>>
       /\ range.offsets = <<>>
       /\ range.sizes = <<>>
       /\ range.totalHeight = Int2Rat(0)

\* user c calls initializeWasm() in this step
C16_Calls(c) == callers[c].pc = "idle" /\ callers'[c].pc = "awaiting"

\* C16: at most one engine load is in flight at any time, and an
\* initializeWasm() call made while a load is in flight starts no load and
\* returns the promise of the load in flight, for every user of the gateway.
C16_JoinStep ==
  \A c \in Callers :
    (InFlight(loads) # {} /\ C16_Calls(c)) =>
      /\ loads' = loads
      /\ callers'[c].load \in InFlight(loads)
C16_OneInFlight == Cardinality(InFlight(loads)) <= 1
C16_SingleLoadInFlight == [][C16_JoinStep]_vars /\ []C16_OneInFlight

\* two users await the promise of the same load, which is in flight
C16_TwoCallersOneLoad ==
  /\ callers[1].pc = "awaiting"
  /\ callers[2].pc = "awaiting"
  /\ callers[1].load = callers[2].load
  /\ callers[1].load \in InFlight(loads)

\* C17: once the status is ready it stays ready: no later step changes the
\* status, the statistics or the module or starts a load, an initializeWasm()
\* call returns a resolved promise, and at most one load ever completes
\* successfully.
C17_ReadyStep ==
  wasmStatus = "ready" =>
    /\ wasmStatus' = "ready"
    /\ performanceStats' = performanceStats
    /\ loads' = loads
    /\ UNCHANGED <<wasmModule, wasmError, initializationPromise>>
    /\ \A c \in Callers :
         /\ C16_Calls(c) => callers'[c].load = 0
         /\ (callers[c].pc = "awaiting" /\ callers[c].load = 0
               /\ callers'[c] # callers[c]) => callers'[c].pc = "resolved"
C17_OneSuccess ==
  Cardinality({k \in 1..Len(loads) : loads[k] = "fulfilled"}) <= 1
C17_ReadyForever == [][C17_ReadyStep]_vars /\ []C17_OneSuccess

\* a call made when the status was ready has resolved without a load
C17_ResolvedWithoutLoad ==
  /\ wasmStatus = "ready"
  /\ \E c \in Callers : callers[c].pc = "resolved" /\ callers[c].load = 0
  /\ Len(loads) = 1

\* C18: the in-flight marker is set exactly while a load is in flight, so it
\* is cleared when the load settles either way; an initializeWasm() call made
\* in status error starts a new load (status initializing, error cleared) and
\* returns that load's promise, however many loads failed before it; and a
\* load that completes brings the status to ready.
C18_RetryStep ==
  /\ \A c \in Callers :
       (wasmStatus = "error" /\ C16_Calls(c)) =>
         /\ wasmStatus' = "initializing"
         /\ ~wasmError'
         /\ Len(loads') = Len(loads) + 1
         /\ loads'[Len(loads')] = "running"
         /\ callers'[c].load = Len(loads')
  /\ \A k \in 1..Len(loads) :
       (loads[k] # "fulfilled" /\ loads'[k] = "fulfilled") =>
         wasmStatus' = "ready" /\ ~wasmError'
C18_MarkerTracksLoad == initializationPromise <=> InFlight(loads) # {}
C18_RetryAfterFailure == [][C18_RetryStep]_vars /\ []C18_MarkerTracksLoad

\* two loads failed, the third one succeeded: the status is ready
C18_ReadyAfterFailures ==
  /\ loads = <<"rejected", "rejected", "fulfilled">>
  /\ wasmStatus = "ready"
  /\ ~initializationPromise

\* user c awaits the promise of a load that failed
C19_AwaitsFailed(c) ==
  /\ callers[c].pc = "awaiting"
  /\ callers[c].load # 0
  /\ loads[callers[c].load] = "rejected"

\* C19: when a load fails the status becomes error with the error recorded
\* and the load's promise is rejected, and every user awaiting that promise
\* observes the rejection: none observes success, none waits forever.
C19_FailStep ==
  /\ lastStep'.how = "failed" =>
       /\ wasmStatus' = "error"
       /\ wasmError'
       /\ \A k \in InFlight(loads) :
            k \notin InFlight(loads') => loads'[k] = "rejected"
  /\ \A c \in Callers :
       (C19_AwaitsFailed(c) /\ callers'[c] # callers[c]) =>
         callers'[c].pc = "rejected"
C19_FailureObserved ==
  /\ [][C19_FailStep]_vars
  /\ \A c \in Callers : C19_AwaitsFailed(c) ~> callers[c].pc = "rejected"

\* both users have observed the failure of the load they awaited
C19_BothObservedFailure ==
  /\ wasmStatus = "error"
  /\ wasmError
  /\ callers[1].pc = "rejected"
  /\ callers[2].pc = "rejected"
  /\ callers[1].load = callers[2].load
  /\ loads[callers[1].load] = "rejected"

\* C20: while the status is not ready a call of createVirtualizer or
\* createUniformVirtualizer fails with the not-initialized error and
\* allocates no handle; a handle is allocated only in status ready.
C20_CreateStep ==
  /\ wasmStatus # "ready" =>
       /\ heap' = heap
       /\ lastStep'.by \in {"createVirtualizer", "createUniformVirtualizer"} =>
            lastStep'.how = "notInitialized"
  /\ heap' # heap => wasmStatus = "ready"
C20_CreateNeedsReady == [][C20_CreateStep]_vars

\* a create call was refused although the bindings were already imported
C20_RefusedWithModule ==
  /\ lastStep.by = "createUniformVirtualizer"
  /\ lastStep.how = "notInitialized"
  /\ wasmModule
  /\ wasmStatus = "initializing"

\* C21: when the engine load fails the controller's initialize() does not
\* reject: it ends normally with error set, isLoading false and no engine
\* handle allocated.
C21_LoadFailureRecovered ==
  /\ initPc \in {"awaiting", "resolved", "rejected", "done"}
  /\ (initPc = "done" /\ ~wasmReady) =>
       /\ error
       /\ ~isLoading
       /\ virtualizer = 0
       /\ uniformVirtualizer = 0
       /\ heap = <<>>

\* initialize() has ended after a failed load, the gateway being in error
C21_EndedInError ==
  /\ initPc = "done"
  /\ ~wasmReady
  /\ wasmStatus = "error"
  /\ wasmError
  /\ error

\* C22: once the controller has entered the Error state no recomputation is
\* attempted: no step schedules a frame callback, no calculateRange runs, no
\* engine handle exists, and the published range stays the initial empty one.
C22_ErrorStep ==
  error => /\ Len(Pending') <= Len(Pending)
           /\ lastStep'.how = "none"
C22_ErrorState ==
  error => /\ range = EmptyRange
           /\ virtualizer = 0
           /\ uniformVirtualizer = 0
           /\ heap = <<>>
C22_NoRecomputeAfterError == [][C22_ErrorStep]_vars /\ []C22_ErrorState

\* C23: the controller only moves Loading -> Ready or Loading -> Error:
\* isLoading is true from construction and once false never true again; error
\* is set only in the step that ends Loading and is never cleared; and no
\* state has both error set and a live engine handle.
C23_TopLevelStep ==
  /\ isLoading' => isLoading
  /\ error => error'
  /\ (error' /\ ~error) => (isLoading /\ ~isLoading')
C23_TopLevelState ==
  /\ initPc \in {"awaiting", "resolved", "rejected"} => (isLoading /\ ~error)
  /\ initPc = "done" => ~isLoading
  /\ error =>
       /\ virtualizer = 0
       /\ uniformVirtualizer = 0
       /\ \A k \in 1..Len(heap) : heap[k].frees > 0
C23_TopLevelStates == [][C23_TopLevelStep]_vars /\ []C23_TopLevelState

\* Loading -> Error after a load that succeeded: the setup raised
C23_SetupFailed ==
  /\ error
  /\ ~isLoading
  /\ wasmReady
  /\ wasmStatus = "ready"
  /\ heap = <<>>

\* the callbacks of the frame in progress that run calculateRange: stage 2 of
\* a scroll, the attach and retry callbacks, and the post-setup callback when
\* an element is bound
C24_RecomputesInFrame ==
  {k \in 1..Len(frame) :
     \/ frame[k].kind \in {"stage2", "attach", "retry"}
     \/ frame[k].kind = "setup" /\ element}

\* C24: at most one execution of calculateRange runs in any single display
\* frame, whatever mix of scroll notifications, setup completion, element
\* attachment, layout retries and item-count changes scheduled the callbacks.
C24_OneRecomputePerFrame == Cardinality(C24_RecomputesInFrame) <= 1

\* the scroll callbacks outstanding (stage 1 or stage 2)
C25_ScrollCallbacks ==
  {k \in 1..Len(Pending) : Pending[k].kind \in {"stage1", "stage2"}}

\* C25: a scroll notification that finds the latch set schedules nothing and
\* changes no state of the controller, so however many notifications arrive
\* before stage 2 runs, one scroll callback at most is outstanding (stage 1,
\* then stage 2) and they end in one recompute.
C25_LatchedStep ==
  (rafPending /\ element /\ scrollDirty /\ ~scrollDirty' /\ element') =>
    /\ lastStep'.by = "handleScroll"
    /\ UNCHANGED <<rafQueue, frame, rafPending, rafId, coreVars, isLoading,
                   error, wasmReady, element>>
C25_OneCycle ==
  /\ Cardinality(C25_ScrollCallbacks) <= 1
  /\ C25_ScrollCallbacks # {} => rafPending
C25_LatchedNotificationIgnored == [][C25_LatchedStep]_vars /\ []C25_OneCycle

\* a notification has just found the latch set, with the one scroll callback
\* outstanding
C25_Ignored ==
  /\ lastStep.by = "handleScroll"
  /\ rafPending
  /\ Cardinality(C25_ScrollCallbacks) = 1

\* the callback a frame in progress runs next ("" between frames)
C26_Running == IF frame = <<>> THEN "" ELSE Head(frame).kind

\* C26: a scroll recompute goes through two frame callbacks.  The
\* notification that sets the latch requests stage 1; stage 1 runs no
\* recompute, keeps the latch and requests stage 2 for a later frame; the
\* recompute of a scroll runs in stage 2 only, with the latch already false.
C26_TwoStageStep ==
  /\ (~rafPending /\ rafPending') =>
       /\ Len(rafQueue') = Len(rafQueue) + 1
       /\ rafQueue'[Len(rafQueue')].kind = "stage1"
       /\ lastStep'.how = "none"
       /\ UNCHANGED coreVars
  /\ C26_Running = "stage1" =>
       /\ lastStep'.how = "none"
       /\ UNCHANGED <<coreVars, rafPending>>
       /\ frame' = Untrack(Tail(frame))
       /\ Len(rafQueue') = Len(rafQueue) + 1
       /\ rafQueue'[Len(rafQueue')].kind = "stage2"
  /\ lastStep'.by = "stage2" => (C26_Running = "stage2" /\ ~rafPending')
  /\ C26_Running = "stage2" => (lastStep'.by = "stage2" /\ ~rafPending')
C26_TwoStages == [][C26_TwoStageStep]_vars

\* stage 2 has published a range and left the latch clear for the next cycle
C26_Stage2Published ==
  /\ lastStep.by = "stage2"
  /\ lastStep.how = "published"
  /\ ~rafPending

\* stage 2 has just run with the element at scroll position p
C27_Observed(p) == lastStep.by = "stage2" /\ scrollPos = Int2Rat(p)

\* C27: stage 2 recomputes from the scroll position and the viewport extent
\* of the moment it runs: it retries exactly when that extent is not positive,
\* and the start and end it accepts are the engine's answer for that position
\* and extent.  No notification is lost: with the latch set, the element
\* bound and the component alive, stage 2 eventually runs at the scroll
\* position the element then has.
C27_Stage2Current ==
  lastStep.by = "stage2" =>
    /\ element => (lastStep.how = "retry" <=> viewportSize <= 0)
    /\ lastStep.how \in {"published", "skip"} =>
         LET info == calc_range(heap[ActiveHandle],
                                RatMul(scrollPos, scrollMultiplier),
                                viewportSize, Overscan)
         IN  /\ lastStart = Max(0, info[1])
             /\ lastEnd = Min(itemCount, info[2])
C27_LatestScrollObserved ==
  /\ []C27_Stage2Current
  /\ \A p \in ScrollPositions :
       (rafPending /\ element /\ ~destroyed /\ scrollPos = Int2Rat(p))
         ~> (C27_Observed(p) \/ scrollPos # Int2Rat(p) \/ ~element \/ destroyed)

\* stage 2 has published the window of a scrolled element
C27_ScrolledWindowPublished ==
  /\ lastStep.by = "stage2"
  /\ lastStep.how = "published"
  /\ scrollPos = Int2Rat(100)
  /\ range.startIndex > 0

\* the step is a frame callback that ran calculateRange
C28_CallbackRecompute ==
  lastStep'.by \in {"stage2", "setup", "attach", "retry"}

\* C28: a recompute that finds the viewport extent not positive ends in a
\* retry: it publishes nothing, asks the engine nothing, leaves range,
\* lastStart, lastEnd, lastPaddingTop, scrollMultiplier and the handles as they
\* are, and requests exactly one callback, a retry, for the next frame.  (In
\* the item-count handler the fields the handler itself rewrites before its
\* recompute are left out.)
C28_RetryStep ==
  /\ (C28_CallbackRecompute /\ element /\ viewportSize <= 0) =>
       lastStep'.how = "retry"
  /\ lastStep'.how = "retry" =>
       /\ element /\ viewportSize <= 0
       /\ range' = range
       /\ Len(Pending') = Len(Pending) + (IF C28_CallbackRecompute THEN 0 ELSE 1)
       /\ rafQueue' = Request(rafQueue, "retry", rafQueue'[Len(rafQueue')].stale)
       /\ C28_CallbackRecompute =>
            /\ UNCHANGED coreVars
            /\ frame' = Tail(frame)
            /\ ~lastStep'.uaf
C28_LayoutRetry == [][C28_RetryStep]_vars

\* the recompute requested at attachment found no extent and asked for a retry
C28_AttachRetried ==
  /\ lastStep.by = "attach"
  /\ lastStep.how = "retry"
  /\ Cardinality({k \in 1..Len(rafQueue) : rafQueue[k].kind = "retry"}) = 1

\* the layout-retry callbacks outstanding
C29_Retries == {k \in 1..Len(Pending) : Pending[k].kind = "retry"}
\* a Ready controller with its element bound and laid out
C29_LaidOut ==
  /\ Ready
  /\ element
  /\ ~destroyed
  /\ viewportSize > 0

\* C29: a retry of the viewport check is silent and ends: no step that ends
\* in a retry changes the error value, and on a Ready controller whose element
\* stays bound, once the extent is positive and a retry is outstanding, the
\* retries run out with a range accepted (lastStart is -1 until a recompute
\* publishes).
C29_SilentStep == lastStep'.how = "retry" => (error' = error /\ isLoading' = isLoading)
C29_RetriedUntilLaidOut ==
  /\ [][C29_SilentStep]_vars
  /\ (C29_LaidOut /\ C29_Retries # {})
       ~> (~C29_LaidOut \/ (C29_Retries = {} /\ lastStart >= 0))


\* C30: while the viewport extent is not positive at most one layout-retry
\* callback is outstanding, whatever triggered the recomputes.
C30_OneRetryOutstanding ==
  viewportSize <= 0 => Cardinality(C29_Retries) <= 1

\* the controller is Ready with its element laid out, no range accepted yet
\* and no item-count change waiting for its handler
C31_AwaitingFirstRange ==
  /\ C29_LaidOut
  /\ lastStart = -1
  /\ ~countDirty

\* C31: once the controller is Ready with an element bound and laid out, a
\* first range is eventually published, with or without a scroll
\* notification and wherever the attachment fell relative to setup and its
\* deferred recompute, as long as frames keep firing and the controller is
\* neither torn down nor detached.
C31_FirstRangePublished ==
  C31_AwaitingFirstRange
    ~> (lastStep.how = "published" \/ ~C29_LaidOut \/ countDirty)

\* the step is the item-count handler getting past its guard
C32_HandlerStep == lastStep'.by = "effect"

\* C32: an item-count change on the Variable path evaluates the size function
\* at every index 0..newCount-1, releases the old handle exactly once and
\* leaves, as the only handle in use, a new Variable handle
\* built from the sizes of the indices 0..newCount-1, with the scroll
\* multiplier taken from the sum of those sizes.
C32_VariableStep ==
  (C32_HandlerStep /\ ~isUniform /\ virtualizer # 0) =>
    /\ lastStep'.calls = 0..(itemCount - 1)
    /\ heap[virtualizer].frees = 0
    /\ heap'[virtualizer].frees = 1
    /\ virtualizer' = Len(heap) + 1
    /\ Len(heap') = Len(heap) + 1
    /\ heap'[virtualizer'].kind = "V"
    /\ heap'[virtualizer'].frees = 0
    /\ heap'[virtualizer'].sizes = SizesArray(sizeFn, itemCount)
    /\ heap'[virtualizer'].count = itemCount
    /\ uniformVirtualizer' = 0
    /\ scrollMultiplier' = Multiplier(SumSeq(SizesArray(sizeFn, itemCount)))
    /\ \A k \in 1..Len(heap) : k # virtualizer => heap'[k] = heap[k]
C32_VariableRebuild == [][C32_VariableStep]_vars

\* C33: an item-count change on the Uniform path keeps the Uniform handle
\* (nothing released, nothing created), sets its count to the new itemCount,
\* leaves isUniform, uniformSize and the Variable slot as they are, does not
\* invoke the size function, and takes the scroll multiplier from
\* newCount x uniformSize.
C33_UniformStep ==
  (C32_HandlerStep /\ isUniform /\ uniformVirtualizer # 0) =>
    /\ lastStep'.calls = {}
    /\ Len(heap') = Len(heap)
    /\ uniformVirtualizer' = uniformVirtualizer
    /\ virtualizer' = virtualizer
    /\ heap' = [heap EXCEPT ![uniformVirtualizer].count = itemCount]
    /\ isUniform'
    /\ uniformSize' = uniformSize
    /\ scrollMultiplier' = Multiplier(itemCount * uniformSize)
C33_UniformInPlace == [][C33_UniformStep]_vars

\* the handler has just set the count of a Uniform handle to a new value
C33_CountUpdated ==
  /\ lastStep.by = "effect"
  /\ isUniform
  /\ uniformVirtualizer # 0
  /\ heap[uniformVirtualizer].count = 2000
  /\ heap[uniformVirtualizer].frees = 0
  /\ Len(heap) = 1
  /\ lastStep.how = "published"

\* C34: setup invokes the size function only below min(10, itemCount) when it
\* selects the Uniform path (at most 10 invocations, none for an empty list),
\* and on neither path at an index >= itemCount.
C34_SetupSampling ==
  lastStep.by = "initialize" =>
    /\ lastStep.calls \subseteq 0..(itemCount - 1)
    /\ isUniform => lastStep.calls \subseteq 0..(Min(SampleSize, itemCount) - 1)

\* C35: lastStart, lastEnd and lastPaddingTop either are invalidated
\* (lastStart = lastEnd = -1: nothing accepted yet, or an item-count change)
\* or are the startIndex, endIndex and paddingTop of the published range, in
\* every reachable state, also after a recompute that failed part-way.
C35_LastMatchesPublished ==
  \/ lastStart = -1 /\ lastEnd = -1
  \/ /\ range.startIndex = lastStart
     /\ range.endIndex = lastEnd
     /\ range.paddingTop = lastPaddingTop

\* the moves of the gateway status
C36_Moves ==
  {<<"idle", "initializing">>, <<"initializing", "ready">>,
   <<"initializing", "error">>, <<"error", "initializing">>}

\* C36: the gateway status moves only idle -> initializing, initializing ->
\* ready, initializing -> error and error -> initializing; it never returns to
\* idle and never leaves ready; it changes only in a call of initializeWasm or
\* when the load that call started settles; and the recorded error is set
\* exactly when the status is error.
C36_StatusStep ==
  wasmStatus' # wasmStatus =>
    /\ <<wasmStatus, wasmStatus'>> \in C36_Moves
    /\ loads' # loads
    /\ heap' = heap
    /\ wasmStatus' = "initializing" <=> Len(loads') = Len(loads) + 1
C36_ErrorIffStatus ==
  /\ wasmStatus \in {"idle", "initializing", "ready", "error"}
  /\ wasmError <=> wasmStatus = "error"
C36_StatusMachine == [][C36_StatusStep]_vars /\ []C36_ErrorIffStatus

\* the status has gone idle, initializing, error, initializing, ready: every
\* move has been taken and the error of the first load is cleared
C36_ReadyAfterRetry ==
  /\ wasmStatus = "ready"
  /\ ~wasmError
  /\ loads = <<"rejected", "fulfilled">>

\* C37: the path and uniformSize are decided once, by setup: they change in
\* no other step, a setup with at most one item decides Uniform, every handle
\* the controller creates is of the variant decided, and the two handle slots
\* are never both occupied; a Uniform handle keeps the size estimateSize(0)
\* for every later item count.
C37_PathStep ==
  /\ (isUniform' # isUniform \/ uniformSize' # uniformSize) =>
       (initPc = "resolved" /\ lastStep'.by = "initialize")
  /\ (lastStep'.by = "initialize" /\ itemCount <= 1) => isUniform'
C37_OneVariant ==
  /\ ~(virtualizer # 0 /\ uniformVirtualizer # 0)
  /\ \A k \in 1..Len(heap) : heap[k].kind = (IF isUniform THEN "U" ELSE "V")
  /\ virtualizer # 0 => ~isUniform
  /\ uniformVirtualizer # 0 =>
       /\ isUniform
       /\ uniformSize = estimateSize(sizeFn, 0)
       /\ heap[uniformVirtualizer].size = uniformSize
C37_PathFixedAtSetup == [][C37_PathStep]_vars /\ []C37_OneVariant

\* a controller set up with an empty list of alternating sizes is still
\* Uniform, with the first size, after the list grew to three items
C37_GrownStillUniform ==
  /\ sizeFn = "alt4060"
  /\ isUniform
  /\ uniformVirtualizer # 0
  /\ heap[uniformVirtualizer].count = 3
  /\ uniformSize = 40
  /\ lastStep.by = "effect"
  /\ lastStep.how = "published"

\* the controller is Loading or in Error
C38_NotReady == isLoading \/ error \/ ~wasmReady

\* C38: handleItemCountChange run while the controller is Loading or in Error
\* changes no field, touches no handle, invokes no size function and requests
\* no recompute, and so it would if it were run on a torn-down controller; a
\* change of itemCount made while Loading is not lost, because setup reads the
\* count configured when it runs: the handle it creates has that count and the
\* scroll multiplier comes from that count's virtual total height.
C38_GuardedStep ==
  (countDirty /\ ~countDirty' /\ C38_NotReady) =>
    /\ UNCHANGED <<coreVars, rafQueue, frame, rafPending, rafId, isLoading,
                   error, wasmReady>>
    /\ lastStep'.how = "none"
    /\ lastStep'.calls = {}
    /\ ~lastStep'.uaf
C38_SetupStep ==
  (lastStep'.by = "initialize" /\ ~error') =>
    IF isUniform'
    THEN /\ heap'[uniformVirtualizer'].count = itemCount
         /\ scrollMultiplier' = Multiplier(itemCount * estimateSize(sizeFn, 0))
    ELSE /\ heap'[virtualizer'].sizes = SizesArray(sizeFn, itemCount)
         /\ scrollMultiplier' = Multiplier(SumSeq(SizesArray(sizeFn, itemCount)))
C38_InertWhenTornDown ==
  destroyed => \A alloc \in BOOLEAN : handleItemCountChange(Core, alloc) = Core
C38_HandlerGuarded ==
  /\ [][C38_GuardedStep /\ C38_SetupStep]_vars
  /\ []C38_InertWhenTornDown

\* the step is a call of scrollToIndex that got as far as el.scrollTo
C39_IndexRequest == lastStep'.by = "scrollToIndex" /\ ~lastStep'.uaf

\* C39: scrollToIndex asks the element to scroll only when an element is
\* bound and the controller is Ready with a live handle, and neither
\* scrollToIndex nor scrollToOffset changes the published range or any other
\* field of the controller.
C39_ScrollHelperStep ==
  /\ C39_IndexRequest =>
       /\ element
       /\ Ready
       /\ ActiveHandle # 0
       /\ heap[ActiveHandle].frees = 0
  /\ lastStep'.by \in {"scrollToIndex", "scrollToOffset"} =>
       UNCHANGED <<coreVars, isLoading, error, wasmReady, rafId, rafPending,
                   rafQueue, frame, element>>
C39_ScrollHelpers == [][C39_ScrollHelperStep]_vars
====
